---- MODULE Spec2Model ----
(***************************************************************************)
(* Model of the repository-analysis pipeline of gemini_code_reviewer:      *)
(*   services/githubService.ts  (src/unnamed/part_002, lines 1-147)        *)
(*   App.tsx                    (src/unnamed/part_002, lines 324-606)      *)
(*   services/geminiService.ts                                             *)
(* Strings are TLA+ strings handled character by character (SubSeq, Len,   *)
(* \o), so that includes/startsWith/endsWith/split/localeCompare are       *)
(* computed the way the JavaScript runtime computes them.                  *)
(***************************************************************************)
EXTENDS Integers, Sequences, FiniteSets, TLC

VARIABLES
    githubUrl,                    \* App state: text of the URL input
    review,                       \* App state: final report ('' when none)
    isProcessing,                 \* App state: a run is in progress
    analysisStatus,               \* App state: last progress status or NoRecord
    error,                        \* App state: analysis error or NoValue
    repoDataForWiki,              \* App state: stored RepoAnalysisData or NoRecord
    architecturalSummaryForWiki,  \* App state: stored summary ('' when none)
    pc,                           \* position of the run inside the async handlers
    parsed,                       \* {owner, repo} returned by parseRepoUrl
    branch,                       \* default branch name
    fileTree,                     \* blob nodes returned by getRepoFileTree
    structural,                   \* selectFilesForAnalysis(...).structural
    code,                         \* selectFilesForAnalysis(...).code
    filesToFetch,                 \* [...structural, ...code]
    rawPending,                   \* indices of filesToFetch whose fetch is in flight
    fetched,                      \* index -> CodeFile of the fulfilled fetch promises
    requests,                     \* URLs passed to fetch() in this run, in order
    failedStatus,                 \* HTTP status of the non-ok response that aborted the run
    progressLog,                  \* statuses passed to updateProgress in this run
    archSummary,                  \* local archSummary of handleRepoAnalysis
    individualReviews,            \* local individualReviews of handleRepoAnalysis
    reviewIdx,                    \* loop variable i of the review loop
    genCalls,                     \* prompts sent to the generation API in this run
    abandoned,                    \* raw fetches still in flight when Promise.all rejected
    isSearchingRecs,              \* App state: a recommendation search is in progress
    recommendations,              \* App state: RecommendedRepo or NoRecord
    recommendationError,          \* App state: recommendation error or NoValue
    isGeneratingDocs,             \* App state: visual docs are being generated
    visualDocs,                   \* App state: VisualDocumentationData or NoRecord
    docError,                     \* App state: documentation error or NoValue
    chatHistory,                  \* App state: ChatMessage[]
    isChatting,                   \* App state: a chat turn is in progress
    recsCall,                     \* findRecommendedRepos call in flight, or NoRecord
    docsCall,                     \* generateVisualDocumentation call in flight, or NoRecord
    chatCall,                     \* startOrContinueChat call in flight, or NoRecord
    searchResponse                \* last response of the search-augmented call, or NoRecord

vars == <<githubUrl, review, isProcessing, analysisStatus, error, repoDataForWiki,
          architecturalSummaryForWiki, pc, parsed, branch, fileTree, structural,
          code, filesToFetch, rawPending, fetched, requests, failedStatus,
          progressLog, archSummary, individualReviews, reviewIdx, genCalls, abandoned,
          isSearchingRecs, recommendations, recommendationError, isGeneratingDocs,
          visualDocs, docError, chatHistory, isChatting, recsCall, docsCall, chatCall,
          searchResponse>>

\* the state of the post-analysis operations (recommendations, Deep Wiki)
postVars == <<isSearchingRecs, recommendations, recommendationError, isGeneratingDocs,
              visualDocs, docError, chatHistory, isChatting, recsCall, docsCall, chatCall,
              searchResponse>>

\* null where the other values are strings / records / numbers
NoValue == "<null>"

NoRecord == [null |-> TRUE]

NoNumber == <<>>

(***************************************************************************)
(* JavaScript string and array primitives                                  *)
(***************************************************************************)
CharAt(s, i) == SubSeq(s, i, i)

StartsWith(s, p) == Len(p) <= Len(s) /\ SubSeq(s, 1, Len(p)) = p

EndsWith(s, p) == Len(p) <= Len(s) /\ SubSeq(s, Len(s) - Len(p) + 1, Len(s)) = p

Includes(s, p) == \E i \in 1..(Len(s) - Len(p) + 1) : SubSeq(s, i, i + Len(p) - 1) = p

Range(f) == {f[i] : i \in DOMAIN f}

\* Array.prototype.includes
ArrIncludes(arr, x) == \E i \in DOMAIN arr : arr[i] = x

\* Array.prototype.indexOf: 0-based position of the first occurrence, -1 if none
IndexOf(arr, x) ==
    IF ArrIncludes(arr, x)
    THEN (CHOOSE i \in DOMAIN arr : arr[i] = x /\ \A j \in 1..(i - 1) : arr[j] # x) - 1
    ELSE -1

\* Array.prototype.slice(from, to) with 0 <= from <= to
Slice(arr, from, to) ==
    SubSeq(arr, from + 1, IF to < Len(arr) THEN to ELSE Len(arr))

\* position (1-based) of the first character of s that is in stops, Len(s)+1 if none
FirstOf(s, stops) ==
    IF \E i \in 1..Len(s) : CharAt(s, i) \in stops
    THEN CHOOSE i \in 1..Len(s) :
            CharAt(s, i) \in stops /\ \A j \in 1..(i - 1) : CharAt(s, j) \notin stops
    ELSE Len(s) + 1

\* String.prototype.split(sep) for a one-character separator
RECURSIVE Split(_, _)
Split(s, sep) ==
    LET k == FirstOf(s, {sep})
    IN  IF k > Len(s)
        THEN <<s>>
        ELSE <<SubSeq(s, 1, k - 1)>> \o Split(SubSeq(s, k + 1, Len(s)), sep)

\* String.prototype.trim for the space character
RECURSIVE Trim(_)
Trim(s) ==
    IF s = "" THEN s
    ELSE IF CharAt(s, 1) = " " THEN Trim(SubSeq(s, 2, Len(s)))
    ELSE IF CharAt(s, Len(s)) = " " THEN Trim(SubSeq(s, 1, Len(s) - 1))
    ELSE s

\* decimal rendering of a small natural number (template literals `${n}`)
Digit(n) == CharAt("0123456789", n + 1)

RECURSIVE NumToString(_)
NumToString(n) == IF n < 10 THEN Digit(n) ELSE NumToString(n \div 10) \o Digit(n % 10)


UpperChars == "ABCDEFGHIJKLMNOPQRSTUVWXYZ"

LowerChars == "abcdefghijklmnopqrstuvwxyz"

IsUpper(c) == \E i \in 1..Len(UpperChars) : CharAt(UpperChars, i) = c

ToLowerChar(c) ==
    IF IsUpper(c)
    THEN CharAt(LowerChars, CHOOSE i \in 1..Len(UpperChars) : CharAt(UpperChars, i) = c)
    ELSE c

RECURSIVE ToLower(_)
ToLower(s) == IF s = "" THEN "" ELSE ToLowerChar(CharAt(s, 1)) \o ToLower(SubSeq(s, 2, Len(s)))

(***************************************************************************)
(* String.prototype.localeCompare (browser collation, ICU/CLDR root order  *)
(* for the ASCII characters used in paths): the strings are compared first *)
(* by the primary weights of their characters, where a letter and its      *)
(* capital have the same weight and punctuation sorts before digits before *)
(* letters; only when all primary weights agree does case decide, lower    *)
(* case first.                                                             *)
(***************************************************************************)
CollationOrder == "_-./0123456789abcdefghijklmnopqrstuvwxyz"

CharsOf(s) == {CharAt(s, i) : i \in 1..Len(s)}

\* primary weight of every character paths are written with
PrimaryWeightTable ==
    [c \in CharsOf(CollationOrder) \union CharsOf(UpperChars) |->
        CHOOSE i \in 1..Len(CollationOrder) : CharAt(CollationOrder, i) = ToLowerChar(c)]

\* tertiary weight: lower case before upper case
TertiaryWeightTable ==
    [c \in CharsOf(CollationOrder) \union CharsOf(UpperChars) |->
        IF IsUpper(c) THEN 1 ELSE 0]

\* first position from i on where the weights of a and b differ, compared:
\* negative if a sorts first, positive if b does, 0 if no position differs
RECURSIVE CompareWeights(_, _, _, _)
CompareWeights(a, b, weight, i) ==
    IF i > Len(a) /\ i > Len(b) THEN 0
    ELSE IF i > Len(a) THEN -1
    ELSE IF i > Len(b) THEN 1
    ELSE IF weight[CharAt(a, i)] # weight[CharAt(b, i)]
         THEN weight[CharAt(a, i)] - weight[CharAt(b, i)]
         ELSE CompareWeights(a, b, weight, i + 1)

LocaleCompare(a, b) ==
    LET primary == CompareWeights(a, b, PrimaryWeightTable, 1)
    IN  IF primary # 0 THEN primary ELSE CompareWeights(a, b, TertiaryWeightTable, 1)

(***************************************************************************)
(* new URL(url): the WHATWG parser restricted to http(s) URLs without      *)
(* port or credentials.  Leading and trailing spaces are stripped, a       *)
(* string without scheme does not parse (there is no base URL), the host   *)
(* is lower-cased, and the path ends at the first '?' or '#'.              *)
(***************************************************************************)
ParseURL(url) ==
    LET t    == Trim(url)
        rest == IF StartsWith(t, "https://") THEN SubSeq(t, 9, Len(t))
                ELSE IF StartsWith(t, "http://") THEN SubSeq(t, 8, Len(t))
                ELSE NoValue
        hEnd == FirstOf(rest, {"/", "?", "#"})
        host == SubSeq(rest, 1, hEnd - 1)
        tail == SubSeq(rest, hEnd, Len(rest))
        path == SubSeq(tail, 1, FirstOf(tail, {"?", "#"}) - 1)
    IN  IF rest = NoValue \/ host = ""
        THEN [ok |-> FALSE]
        ELSE [ok |-> TRUE, hostname |-> ToLower(host),
              pathname |-> IF path = "" THEN "/" ELSE path]

(***************************************************************************)
(* githubService.ts: helper functions                                      *)
(***************************************************************************)
GITHUB_API_BASE == "https://api.github.com"

InvalidUrlMessage ==
    "Invalid GitHub repository URL. Please provide a URL like 'https://github.com/owner/repo'."

\* urlObject.pathname.split('/').filter(p => p)
PathParts(pathname) == SelectSeq(Split(pathname, "/"), LAMBDA p : p # "")

MinPathParts == 2

parseRepoUrl_OneSegment(url) ==
    LET u == ParseURL(url)
    IN  IF ~u.ok \/ u.hostname # "github.com" \/ Len(PathParts(u.pathname)) < 1
        THEN [ok |-> FALSE, message |-> InvalidUrlMessage]
        ELSE [ok |-> TRUE, owner |-> PathParts(u.pathname)[1],
              repo |-> IF Len(PathParts(u.pathname)) < 2 THEN NoValue
                       ELSE PathParts(u.pathname)[2]]

\* ok = FALSE stands for the Error thrown from the catch block
parseRepoUrl(url) ==
    LET u == ParseURL(url)
    IN  IF ~u.ok \/ u.hostname # "github.com" \/ Len(PathParts(u.pathname)) < MinPathParts
        THEN [ok |-> FALSE, message |-> InvalidUrlMessage]
        ELSE [ok |-> TRUE, owner |-> PathParts(u.pathname)[1],
              repo |-> PathParts(u.pathname)[2]]

(***************************************************************************)
(* githubService.ts: file selection                                        *)
(***************************************************************************)
STRUCTURAL_FILE_PATTERNS ==
    << "package.json", "tsconfig.json", "vite.config.ts", "webpack.config.js",
       "pom.xml", "build.gradle", "pyproject.toml", "requirements.txt",
       "composer.json", "Gemfile", "go.mod", "Cargo.toml", ".eslintrc.json" >>

CODE_FILE_PRIORITY ==
    << "src/main.ts", "src/main.js", "src/index.ts", "src/index.js",
       "src/App.tsx", "src/App.jsx", "src/app.py", "src/main.py",
       "src/server.js", "src/server.ts", "lib/main.dart" >>

codeExtensions ==
    << ".js", ".ts", ".jsx", ".tsx", ".py", ".java", ".go", ".rs", ".rb", ".php",
       ".html", ".css" >>

nonCodeDirs ==
    << "node_modules", "dist", "build", "docs", "test", "tests", "assets", "public",
       ".github", ".vscode" >>

isCodeFile_TopLevelOnly(path) ==
    IF \E d \in DOMAIN nonCodeDirs : StartsWith(path, nonCodeDirs[d] \o "/")
    THEN FALSE
    ELSE \E e \in DOMAIN codeExtensions : EndsWith(path, codeExtensions[e])

isCodeFile(path) ==
    IF \/ \E d \in DOMAIN nonCodeDirs : Includes(path, "/" \o nonCodeDirs[d] \o "/")
       \/ \E d \in DOMAIN nonCodeDirs : StartsWith(path, nonCodeDirs[d] \o "/")
    THEN FALSE
    ELSE \E e \in DOMAIN codeExtensions : EndsWith(path, codeExtensions[e])

CompareCode_NonPriorityFirst(a, b) ==
    LET aPrio == IndexOf(CODE_FILE_PRIORITY, a)
        bPrio == IndexOf(CODE_FILE_PRIORITY, b)
    IN  IF aPrio = -1 /\ bPrio = -1 THEN LocaleCompare(a, b)
        ELSE IF aPrio = -1 THEN -1
        ELSE IF bPrio = -1 THEN 1
        ELSE aPrio - bPrio

\* the comparator passed to code.sort
CompareCode(a, b) ==
    LET aPrio == IndexOf(CODE_FILE_PRIORITY, a)
        bPrio == IndexOf(CODE_FILE_PRIORITY, b)
    IN  IF aPrio = -1 /\ bPrio = -1 THEN LocaleCompare(a, b)
        ELSE IF aPrio = -1 THEN 1
        ELSE IF bPrio = -1 THEN -1
        ELSE aPrio - bPrio

\* Array.prototype.sort is stable: an element moves left only past elements
\* the comparator ranks strictly after it
RECURSIVE InsertSorted(_, _)
InsertSorted(s, x) ==
    IF s = <<>> THEN <<x>>
    ELSE IF CompareCode(s[Len(s)], x) > 0
         THEN Append(InsertSorted(SubSeq(s, 1, Len(s) - 1), x), s[Len(s)])
         ELSE Append(s, x)

RECURSIVE SortCode(_)
SortCode(s) ==
    IF s = <<>> THEN <<>>
    ELSE InsertSorted(SortCode(SubSeq(s, 1, Len(s) - 1)), s[Len(s)])

MaxCodeFiles == 5

PathsOf(fileList) == [i \in DOMAIN fileList |-> fileList[i].path]

selectFilesForAnalysis_NoLimit(fileList) ==
    [structural |-> SelectSeq(PathsOf(fileList),
                              LAMBDA p : ArrIncludes(STRUCTURAL_FILE_PATTERNS, p)),
     code       |-> SortCode(SelectSeq(PathsOf(fileList), isCodeFile))]

selectFilesForAnalysis_SuffixMatch(fileList) ==
    [structural |-> SelectSeq(PathsOf(fileList),
                              LAMBDA p : \E n \in DOMAIN STRUCTURAL_FILE_PATTERNS :
                                            EndsWith(p, STRUCTURAL_FILE_PATTERNS[n])),
     code       |-> Slice(SortCode(SelectSeq(PathsOf(fileList), isCodeFile)),
                          0, MaxCodeFiles)]

selectFilesForAnalysis(fileList) ==
    [structural |-> SelectSeq(PathsOf(fileList),
                              LAMBDA p : ArrIncludes(STRUCTURAL_FILE_PATTERNS, p)),
     code       |-> Slice(SortCode(SelectSeq(PathsOf(fileList), isCodeFile)),
                          0, MaxCodeFiles)]


(***************************************************************************)
(* Inputs                                                                  *)
(***************************************************************************)
\* texts the user can put into the URL input
Urls ==
    { "", " ",
      "https://github.com/o/r",
      "https://GitHub.com//o/r/tree/main",
      "https://github.com/o",
      "https://github.com/o?x/y",
      "https://gitlab.com/o/r",
      "github.com/o/r" }

\* HTTP statuses the hosting API answers with
Statuses == {200, 404, 403}

\* Response.ok
ResponseOk(status) == status >= 200 /\ status <= 299

DefaultBranches == {"main"}

TreeSha == "sha1"

\* nodes of the recursive tree the hosting API can return
PipeNodes ==
    << [path |-> "src", type |-> "tree"],
       [path |-> "vite.config.ts", type |-> "blob"],
       [path |-> "src/util.ts", type |-> "blob"],
       [path |-> "package.json", type |-> "blob"],
       [path |-> "src/index.ts", type |-> "blob"],
       [path |-> "README.md", type |-> "blob"],
       [path |-> "src/Zed.ts", type |-> "blob"],
       [path |-> "api.go", type |-> "blob"] >>

MaxTreeNodes == 6

\* the subsequence of universe at the positions in S
RECURSIVE Pick(_, _, _)
Pick(universe, S, i) ==
    IF i > Len(universe) THEN <<>>
    ELSE (IF i \in S THEN <<universe[i]>> ELSE <<>>) \o Pick(universe, S, i + 1)

TreeResponses ==
    { Pick(PipeNodes, S, 1) :
        S \in {T \in SUBSET DOMAIN PipeNodes : Cardinality(T) <= MaxTreeNodes} }

\* Response.text() of the raw-content request for a path
ContentOf(path) == "<content of " \o path \o ">"

\* texts the generation API answers with, and the message of the error it raises
SummaryText == "ARCHITECTURE"

ReviewText(path) == "review of " \o path

ReportText == "REPORT"

UpstreamErrors == {"quota exceeded"}

(***************************************************************************)
(* Request URLs                                                            *)
(***************************************************************************)
RepoUrl(p) == GITHUB_API_BASE \o "/repos/" \o p.owner \o "/" \o p.repo

BranchUrl(p, b) == RepoUrl(p) \o "/branches/" \o b

TreeUrl(p, sha) == RepoUrl(p) \o "/git/trees/" \o sha \o "?recursive=1"

RawUrl(p, b, path) ==
    "https://raw.githubusercontent.com/" \o p.owner \o "/" \o p.repo \o "/" \o b \o "/" \o path

(***************************************************************************)
(* Progress statuses and error messages                                    *)
(***************************************************************************)
Status(stage, message, current, total) ==
    [stage |-> stage, message |-> message, current |-> current, total |-> total]

BlankUrlMessage == "Please enter a GitHub repository URL."

MetadataFailedMessage_NoStatus(status) == "Could not fetch repository data."

MetadataFailedMessage(status) ==
    "Could not fetch repository data. Status: " \o NumToString(status)

BranchFailedMessage == "Could not fetch branch details."

TreeFailedMessage == "Could not fetch repository file tree."

NoFilesMessage == "Could not find any relevant files to analyze in this repository."

RawFailedMessage(path) == "Failed to fetch " \o path

NoCodeFilesMessage == "Could not find any reviewable source code files in this repository."

AnalysisFailed(message) == "Analysis Failed: " \o message

(***************************************************************************)
(* geminiService.ts                                                        *)
(***************************************************************************)
NoStructuralFilesSummary ==
    "No structural files (like package.json) were found to determine the project's architecture."

\* files.map(file => `--- File: ${file.path} ---\n${file.content}`).join('\n\n')
RECURSIVE FilesContent(_)
FilesContent(files) ==
    IF files = <<>> THEN ""
    ELSE "--- File: " \o files[1].path \o " ---\n" \o files[1].content
         \o (IF Len(files) = 1 THEN "" ELSE "\n\n" \o FilesContent(Tail(files)))

\* a prompt is its template with the values substituted for the placeholders
ArchitecturePrompt(structuralFiles) ==
    [template |-> "ARCHITECTURE_PROMPT_TEMPLATE", values |-> <<FilesContent(structuralFiles)>>]

FileReviewPrompt(file, summary) ==
    [template |-> "FILE_REVIEW_PROMPT_TEMPLATE", values |-> <<summary, file.path, file.content>>]

SynthesisPrompt(reviews) ==
    [template |-> "SYNTHESIS_PROMPT_TEMPLATE", values |-> <<reviews>>]

GeminiError_Generic(upstream) ==
    "An unexpected error occurred while communicating with the Gemini API."

\* the Error thrown by callGeminiWithRetry for an upstream Error
GeminiError(upstream) == "Gemini API Error: " \o upstream

\* individualReviews.join('\n\n')
RECURSIVE Join(_, _)
Join(strs, sep) ==
    IF strs = <<>> THEN ""
    ELSE strs[1] \o (IF Len(strs) = 1 THEN "" ELSE sep \o Join(Tail(strs), sep))


(***************************************************************************)
(* App.tsx and startRepositoryAnalysis as a state machine.  An action runs *)
(* a handler from the event that resumes it to its next await; React state *)
(* setters and the microtasks of already settled promises are part of it.  *)
(***************************************************************************)
\* the run-local variables of a handler that has not reached them yet
NoLocals ==
    /\ parsed = NoRecord
    /\ branch = NoValue
    /\ fileTree = <<>>
    /\ structural = <<>>
    /\ code = <<>>
    /\ filesToFetch = <<>>
    /\ rawPending = {}
    /\ fetched = <<>>
    /\ requests = <<>>
    /\ failedStatus = NoNumber
    /\ progressLog = <<>>
    /\ archSummary = NoValue
    /\ individualReviews = <<>>
    /\ reviewIdx = 0
    /\ genCalls = <<>>
    /\ abandoned = 0

\* the useState initial values of the post-analysis state; no call in flight
NoPostAnalysis ==
    /\ isSearchingRecs = FALSE
    /\ recommendations = NoRecord
    /\ recommendationError = NoValue
    /\ isGeneratingDocs = FALSE
    /\ visualDocs = NoRecord
    /\ docError = NoValue
    /\ chatHistory = <<>>
    /\ isChatting = FALSE
    /\ recsCall = NoRecord
    /\ docsCall = NoRecord
    /\ chatCall = NoRecord
    /\ searchResponse = NoRecord

Init ==
    /\ githubUrl = ""
    /\ review = ""
    /\ isProcessing = FALSE
    /\ analysisStatus = NoRecord
    /\ error = NoValue
    /\ repoDataForWiki = NoRecord
    /\ architecturalSummaryForWiki = ""
    /\ pc = "idle"
    /\ NoLocals
    /\ NoPostAnalysis

\* GitHubInput: onChange of the input, which is disabled while analyzing
SetUrl(u) ==
    /\ ~isProcessing
    /\ u # githubUrl
    /\ githubUrl' = u
    /\ UNCHANGED <<review, isProcessing, analysisStatus, error, repoDataForWiki,
                   architecturalSummaryForWiki, pc, parsed, branch, fileTree, structural,
                   code, filesToFetch, rawPending, fetched, requests, failedStatus,
                   progressLog, archSummary, individualReviews, reviewIdx, genCalls>>
    /\ UNCHANGED <<abandoned, postVars>>

RunFails_KeepsProcessing(message, status) ==
    /\ error' = AnalysisFailed(message)
    /\ UNCHANGED <<isProcessing, analysisStatus>>
    /\ failedStatus' = status
    /\ pc' = "done"

\* catch and finally of handleRepoAnalysis; status is <<the HTTP status>> of
\* the response that made the run throw, NoNumber when no response did
RunFails(message, status) ==
    /\ error' = AnalysisFailed(message)
    /\ isProcessing' = FALSE
    /\ analysisStatus' = NoRecord
    /\ failedStatus' = status
    /\ pc' = "done"

\* updateCallback(status) for each status of the sequence, in order
Progress(statuses) ==
    /\ progressLog' = progressLog \o statuses
    /\ analysisStatus' = statuses[Len(statuses)]

InitializingStatus == Status("INITIALIZING", "Parsing repository URL...", 0, 0)

HandleRepoAnalysis_KeepsChatHistory ==
    /\ ~isProcessing
    /\ IF Trim(githubUrl) = ""
       THEN /\ error' = BlankUrlMessage
            /\ UNCHANGED <<githubUrl, review, isProcessing, analysisStatus, repoDataForWiki,
                           architecturalSummaryForWiki, pc, parsed, branch, fileTree,
                           structural, code, filesToFetch, rawPending, fetched, requests,
                           failedStatus, progressLog, archSummary, individualReviews,
                           reviewIdx, genCalls, abandoned, postVars>>
       ELSE LET r == parseRepoUrl(githubUrl)
            IN  /\ review' = ""
                /\ recommendations' = NoRecord
                /\ recommendationError' = NoValue
                /\ visualDocs' = NoRecord
                /\ docError' = NoValue
                /\ repoDataForWiki' = NoRecord
                /\ architecturalSummaryForWiki' = ""
                /\ UNCHANGED <<chatHistory, isSearchingRecs, isGeneratingDocs, isChatting,
                               recsCall, docsCall, chatCall, searchResponse>>
                /\ abandoned' = 0
                /\ branch' = NoValue
                /\ fileTree' = <<>>
                /\ structural' = <<>>
                /\ code' = <<>>
                /\ filesToFetch' = <<>>
                /\ rawPending' = {}
                /\ fetched' = <<>>
                /\ archSummary' = NoValue
                /\ individualReviews' = <<>>
                /\ reviewIdx' = 0
                /\ genCalls' = <<>>
                /\ UNCHANGED githubUrl
                /\ IF ~r.ok
                   THEN /\ RunFails(r.message, NoNumber)
                        /\ parsed' = NoRecord
                        /\ progressLog' = <<InitializingStatus>>
                        /\ requests' = <<>>
                   ELSE /\ parsed' = [owner |-> r.owner, repo |-> r.repo]
                        /\ isProcessing' = TRUE
                        /\ error' = NoValue
                        /\ failedStatus' = NoNumber
                        /\ progressLog' =
                              <<InitializingStatus,
                                Status("FETCHING", "Getting default branch...", 0, 0)>>
                        /\ analysisStatus' =
                              Status("FETCHING", "Getting default branch...", 0, 0)
                        /\ requests' = <<RepoUrl(parsed')>>
                        /\ pc' = "awaitMetadata"

\* handleRepoAnalysis up to the first await of startRepositoryAnalysis.
\* Started by the Analyze button (disabled while analyzing or when the URL is
\* empty) or by Enter in the input (disabled while analyzing).
HandleRepoAnalysis ==
    /\ ~isProcessing
    /\ IF Trim(githubUrl) = ""
       THEN /\ error' = BlankUrlMessage
            /\ UNCHANGED <<githubUrl, review, isProcessing, analysisStatus, repoDataForWiki,
                           architecturalSummaryForWiki, pc, parsed, branch, fileTree,
                           structural, code, filesToFetch, rawPending, fetched, requests,
                           failedStatus, progressLog, archSummary, individualReviews,
                           reviewIdx, genCalls, abandoned, postVars>>
       ELSE LET r == parseRepoUrl(githubUrl)
            IN  \* resetState() and the fresh locals of the new call
                /\ review' = ""
                /\ recommendations' = NoRecord
                /\ recommendationError' = NoValue
                /\ visualDocs' = NoRecord
                /\ docError' = NoValue
                /\ repoDataForWiki' = NoRecord
                /\ architecturalSummaryForWiki' = ""
                /\ chatHistory' = <<>>
                /\ UNCHANGED <<isSearchingRecs, isGeneratingDocs, isChatting, recsCall,
                               docsCall, chatCall, searchResponse>>
                /\ abandoned' = 0
                /\ branch' = NoValue
                /\ fileTree' = <<>>
                /\ structural' = <<>>
                /\ code' = <<>>
                /\ filesToFetch' = <<>>
                /\ rawPending' = {}
                /\ fetched' = <<>>
                /\ archSummary' = NoValue
                /\ individualReviews' = <<>>
                /\ reviewIdx' = 0
                /\ genCalls' = <<>>
                /\ UNCHANGED githubUrl
                /\ IF ~r.ok
                   THEN /\ RunFails(r.message, NoNumber)
                        /\ parsed' = NoRecord
                        /\ progressLog' = <<InitializingStatus>>
                        /\ requests' = <<>>
                   ELSE /\ parsed' = [owner |-> r.owner, repo |-> r.repo]
                        /\ isProcessing' = TRUE
                        /\ error' = NoValue
                        /\ failedStatus' = NoNumber
                        /\ progressLog' =
                              <<InitializingStatus,
                                Status("FETCHING", "Getting default branch...", 0, 0)>>
                        /\ analysisStatus' =
                              Status("FETCHING", "Getting default branch...", 0, 0)
                        /\ requests' = <<RepoUrl(parsed')>>
                        /\ pc' = "awaitMetadata"

\* getRepoDefaultBranch resumes with the metadata response
MetadataResponse(status, defaultBranch) ==
    /\ pc = "awaitMetadata"
    /\ IF ~ResponseOk(status)
       THEN /\ RunFails(MetadataFailedMessage(status), <<status>>)
            /\ UNCHANGED <<branch, requests, progressLog>>
       ELSE /\ branch' = defaultBranch
            /\ Progress(<<Status("FETCHING", "Fetching file list...", 0, 0)>>)
            /\ requests' = Append(requests, BranchUrl(parsed, defaultBranch))
            /\ pc' = "awaitBranch"
            /\ UNCHANGED <<error, isProcessing, failedStatus>>
    /\ UNCHANGED <<githubUrl, review, repoDataForWiki, architecturalSummaryForWiki, parsed,
                   fileTree, structural, code, filesToFetch, rawPending, fetched,
                   archSummary, individualReviews, reviewIdx, genCalls>>
    /\ UNCHANGED <<abandoned, postVars>>

\* getRepoFileTree resumes with the branch response
BranchResponse(status, sha) ==
    /\ pc = "awaitBranch"
    /\ IF ~ResponseOk(status)
       THEN /\ RunFails(BranchFailedMessage, <<status>>)
            /\ UNCHANGED requests
       ELSE /\ requests' = Append(requests, TreeUrl(parsed, sha))
            /\ pc' = "awaitTree"
            /\ UNCHANGED <<error, isProcessing, analysisStatus, failedStatus>>
    /\ UNCHANGED <<githubUrl, review, repoDataForWiki, architecturalSummaryForWiki, parsed,
                   branch, fileTree, structural, code, filesToFetch, rawPending, fetched,
                   progressLog, archSummary, individualReviews, reviewIdx, genCalls>>
    /\ UNCHANGED <<abandoned, postVars>>


\* treeData.tree.filter(node => node.type === 'blob').map(...)
BlobsOf(tree) == SelectSeq(tree, LAMBDA node : node.type = "blob")

NothingToFetch_Never(files) == FALSE

\* filesToFetch.length === 0
NothingToFetch(files) == Len(files) = 0

FetchingFilesStatus(n) ==
    Status("FETCHING", "Fetching " \o NumToString(n) \o " files...", 0, 0)

\* getRepoFileTree resumes with the tree response; startRepositoryAnalysis
\* selects the files and starts one raw-content fetch per selected path
TreeResponse(status, tree) ==
    /\ pc = "awaitTree"
    /\ IF ~ResponseOk(status)
       THEN /\ RunFails(TreeFailedMessage, <<status>>)
            /\ UNCHANGED <<fileTree, structural, code, filesToFetch, rawPending, requests,
                           progressLog>>
       ELSE LET sel   == selectFilesForAnalysis(BlobsOf(tree))
                files == sel.structural \o sel.code
            IN  /\ fileTree' = BlobsOf(tree)
                /\ structural' = sel.structural
                /\ code' = sel.code
                /\ filesToFetch' = files
                /\ IF NothingToFetch(files)
                   THEN /\ RunFails(NoFilesMessage, NoNumber)
                        /\ UNCHANGED <<rawPending, requests, progressLog>>
                   ELSE /\ requests' =
                              requests \o [i \in DOMAIN files |-> RawUrl(parsed, branch, files[i])]
                        /\ rawPending' = DOMAIN files
                        /\ Progress(<<FetchingFilesStatus(Len(files))>>)
                        /\ pc' = "awaitRaw"
                        /\ UNCHANGED <<error, isProcessing, failedStatus>>
    /\ UNCHANGED <<githubUrl, review, repoDataForWiki, architecturalSummaryForWiki, parsed,
                   branch, fetched, archSummary, individualReviews, reviewIdx, genCalls>>
    /\ UNCHANGED <<abandoned, postVars>>

\* the object returned by startRepositoryAnalysis
RepoDataOf(allFiles, structuralPaths, codePaths) ==
    [structuralFiles |-> SelectSeq(allFiles, LAMBDA f : ArrIncludes(structuralPaths, f.path)),
     codeFiles       |-> SelectSeq(allFiles, LAMBDA f : ArrIncludes(codePaths, f.path))]

SummarizingStatus == Status("SUMMARIZING", "Generating architectural summary...", 0, 0)

ReviewingStatus_CompletedCount(files, i) ==
    Status("REVIEWING", "Reviewing " \o files[i + 1].path \o "...", i, Len(files))

ReviewingStatus(files, i) ==
    Status("REVIEWING", "Reviewing " \o files[i + 1].path \o "...", i + 1, Len(files))

SynthesizingStatus_AsSummarizing == Status("SUMMARIZING", "Compiling final report...", 0, 0)

SynthesizingStatus == Status("SYNTHESIZING", "Compiling final report...", 0, 0)

\* the review loop of handleRepoAnalysis from the top of iteration i to its await
ReviewIteration(files, summary, i, statuses, calls) ==
    /\ reviewIdx' = i
    /\ Progress(statuses \o <<ReviewingStatus(files, i)>>)
    /\ genCalls' = calls \o <<FileReviewPrompt(files[i + 1], summary)>>
    /\ pc' = "awaitReview"

AfterFetch_NoCodeCheck(repoData) ==
    /\ repoDataForWiki' = repoData
    /\ Progress(<<SummarizingStatus>>)
    /\ genCalls' = Append(genCalls, ArchitecturePrompt(repoData.structuralFiles))
    /\ pc' = "awaitSummary"
    /\ UNCHANGED <<error, isProcessing, failedStatus, architecturalSummaryForWiki,
                   archSummary, reviewIdx>>

AfterFetch_AlwaysSummarizes(repoData) ==
    IF Len(repoData.codeFiles) = 0
    THEN /\ RunFails(NoCodeFilesMessage, NoNumber)
         /\ UNCHANGED <<repoDataForWiki, architecturalSummaryForWiki, archSummary,
                        reviewIdx, genCalls, progressLog>>
    ELSE AfterFetch_NoCodeCheck(repoData)

\* handleRepoAnalysis after startRepositoryAnalysis has returned repoData
AfterFetch(repoData) ==
    IF Len(repoData.codeFiles) = 0
    THEN /\ RunFails(NoCodeFilesMessage, NoNumber)
         /\ UNCHANGED <<repoDataForWiki, architecturalSummaryForWiki, archSummary,
                        reviewIdx, genCalls, progressLog>>
    ELSE /\ repoDataForWiki' = repoData
         /\ UNCHANGED <<error, isProcessing, failedStatus>>
         /\ IF Len(repoData.structuralFiles) = 0
            THEN \* generateArchitecturalSummary returns without a call
                 /\ archSummary' = NoStructuralFilesSummary
                 /\ architecturalSummaryForWiki' = NoStructuralFilesSummary
                 /\ ReviewIteration(repoData.codeFiles, NoStructuralFilesSummary, 0,
                                    <<SummarizingStatus>>, genCalls)
            ELSE /\ Progress(<<SummarizingStatus>>)
                 /\ genCalls' = Append(genCalls, ArchitecturePrompt(repoData.structuralFiles))
                 /\ pc' = "awaitSummary"
                 /\ UNCHANGED <<architecturalSummaryForWiki, archSummary, reviewIdx>>

RawResponse_AwaitsAll(i, status) ==
    /\ pc = "awaitRaw"
    /\ i \in rawPending
    /\ rawPending' = rawPending \ {i}
    /\ LET file   == [path |-> filesToFetch[i], content |-> ContentOf(filesToFetch[i])]
           got    == IF ResponseOk(status)
                     THEN [j \in DOMAIN fetched \union {i} |->
                              IF j = i THEN file ELSE fetched[j]]
                     ELSE fetched
           failed == IF ResponseOk(status) THEN failedStatus ELSE <<status>>
       IN  /\ fetched' = got
           /\ UNCHANGED abandoned
           /\ IF rawPending' # {}
              THEN /\ failedStatus' = failed
                   /\ UNCHANGED <<error, isProcessing, analysisStatus, pc, repoDataForWiki,
                                  architecturalSummaryForWiki, archSummary, reviewIdx,
                                  genCalls, progressLog>>
              ELSE IF failed # NoNumber
                   THEN /\ RunFails(RawFailedMessage(filesToFetch[i]), failed)
                        /\ UNCHANGED <<repoDataForWiki, architecturalSummaryForWiki,
                                       archSummary, reviewIdx, genCalls, progressLog>>
                   ELSE AfterFetch(RepoDataOf(got, structural, code))
    /\ UNCHANGED <<githubUrl, review, parsed, branch, fileTree, structural, code,
                   filesToFetch, requests, individualReviews>>
    /\ UNCHANGED postVars

RawResponse_CompletionOrder(i, status) ==
    /\ pc = "awaitRaw"
    /\ i \in rawPending
    /\ IF ~ResponseOk(status)
       THEN /\ RunFails(RawFailedMessage(filesToFetch[i]), <<status>>)
            /\ rawPending' = {}
            /\ fetched' = <<>>
            /\ abandoned' = Cardinality(rawPending \ {i})
            /\ UNCHANGED <<repoDataForWiki, architecturalSummaryForWiki,
                           archSummary, reviewIdx, genCalls, progressLog>>
       ELSE LET file == [path |-> filesToFetch[i], content |-> ContentOf(filesToFetch[i])]
                got  == Append(fetched, file)
            IN  /\ fetched' = got
                /\ rawPending' = rawPending \ {i}
                /\ UNCHANGED abandoned
                /\ IF rawPending' # {}
                   THEN UNCHANGED <<error, isProcessing, analysisStatus, failedStatus, pc,
                                    repoDataForWiki, architecturalSummaryForWiki,
                                    archSummary, reviewIdx, genCalls, progressLog>>
                   ELSE AfterFetch(RepoDataOf(got, structural, code))
    /\ UNCHANGED <<githubUrl, review, parsed, branch, fileTree, structural, code,
                   filesToFetch, requests, individualReviews>>
    /\ UNCHANGED postVars

\* one fetch promise of the fan-out resumes with its response; Promise.all
\* rejects with the first rejection and resolves when every fetch has resolved
RawResponse(i, status) ==
    /\ pc = "awaitRaw"
    /\ i \in rawPending
    /\ IF ~ResponseOk(status)
       THEN \* the rejection settles Promise.all: the run waits for no other
            \* fetch and the values already fulfilled are dropped
            /\ RunFails(RawFailedMessage(filesToFetch[i]), <<status>>)
            /\ rawPending' = {}
            /\ fetched' = <<>>
            /\ abandoned' = Cardinality(rawPending \ {i})
            /\ UNCHANGED <<repoDataForWiki, architecturalSummaryForWiki,
                           archSummary, reviewIdx, genCalls, progressLog>>
       ELSE LET file == [path |-> filesToFetch[i], content |-> ContentOf(filesToFetch[i])]
                got  == [j \in DOMAIN fetched \union {i} |->
                            IF j = i THEN file ELSE fetched[j]]
            IN  /\ fetched' = got
                /\ rawPending' = rawPending \ {i}
                /\ UNCHANGED abandoned
                /\ IF rawPending' # {}
                   THEN UNCHANGED <<error, isProcessing, analysisStatus, failedStatus, pc,
                                    repoDataForWiki, architecturalSummaryForWiki,
                                    archSummary, reviewIdx, genCalls, progressLog>>
                   ELSE AfterFetch(RepoDataOf(got, structural, code))
    /\ UNCHANGED <<githubUrl, review, parsed, branch, fileTree, structural, code,
                   filesToFetch, requests, individualReviews>>
    /\ UNCHANGED postVars

\* what the generation API can do with a call: answer (with the text given
\* above for that call) or raise an Error
GenOutcomes ==
    {[ok |-> TRUE]} \union {[ok |-> FALSE, message |-> m] : m \in UpstreamErrors}

\* generateArchitecturalSummary resumes with the answer of the generation API
SummaryResponse(outcome) ==
    /\ pc = "awaitSummary"
    /\ IF ~outcome.ok
       THEN /\ RunFails(GeminiError(outcome.message), NoNumber)
            /\ UNCHANGED <<architecturalSummaryForWiki, archSummary, reviewIdx, genCalls,
                           progressLog>>
       ELSE /\ archSummary' = SummaryText
            /\ architecturalSummaryForWiki' = SummaryText
            /\ ReviewIteration(repoDataForWiki.codeFiles, SummaryText, 0, <<>>, genCalls)
            /\ UNCHANGED <<error, isProcessing, failedStatus>>
    /\ UNCHANGED <<githubUrl, review, repoDataForWiki, parsed, branch, fileTree, structural,
                   code, filesToFetch, rawPending, fetched, requests, individualReviews>>
    /\ UNCHANGED <<abandoned, postVars>>

TaggedReview(path, text) == "--- Review for " \o path \o " ---\n" \o text

\* reviewFileWithContext resumes with the answer of the generation API
ReviewResponse(outcome) ==
    /\ pc = "awaitReview"
    /\ IF ~outcome.ok
       THEN /\ RunFails(GeminiError(outcome.message), NoNumber)
            /\ UNCHANGED <<individualReviews, reviewIdx, genCalls, progressLog>>
       ELSE LET files   == repoDataForWiki.codeFiles
                reviews == Append(individualReviews,
                                  TaggedReview(files[reviewIdx + 1].path,
                                               ReviewText(files[reviewIdx + 1].path)))
            IN  /\ individualReviews' = reviews
                /\ UNCHANGED <<error, isProcessing, failedStatus>>
                /\ IF reviewIdx + 1 < Len(files)
                   THEN ReviewIteration(files, archSummary, reviewIdx + 1, <<>>, genCalls)
                   ELSE /\ Progress(<<SynthesizingStatus>>)
                        /\ genCalls' = Append(genCalls, SynthesisPrompt(Join(reviews, "\n\n")))
                        /\ pc' = "awaitSynthesis"
                        /\ UNCHANGED reviewIdx
    /\ UNCHANGED <<githubUrl, review, repoDataForWiki, architecturalSummaryForWiki, parsed,
                   branch, fileTree, structural, code, filesToFetch, rawPending, fetched,
                   requests, archSummary>>
    /\ UNCHANGED <<abandoned, postVars>>

SynthesisResponse_PartialReport(outcome) ==
    /\ pc = "awaitSynthesis"
    /\ IF ~outcome.ok
       THEN /\ RunFails(GeminiError(outcome.message), NoNumber)
            /\ review' = Join(individualReviews, "\n\n")
       ELSE /\ review' = ReportText
            /\ isProcessing' = FALSE
            /\ analysisStatus' = NoRecord
            /\ pc' = "done"
            /\ UNCHANGED <<error, failedStatus>>
    /\ UNCHANGED <<githubUrl, repoDataForWiki, architecturalSummaryForWiki, parsed, branch,
                   fileTree, structural, code, filesToFetch, rawPending, fetched, requests,
                   progressLog, archSummary, individualReviews, reviewIdx, genCalls>>
    /\ UNCHANGED <<abandoned, postVars>>

\* synthesizeFinalReport resumes with the answer of the generation API
SynthesisResponse(outcome) ==
    /\ pc = "awaitSynthesis"
    /\ IF ~outcome.ok
       THEN /\ RunFails(GeminiError(outcome.message), NoNumber)
            /\ UNCHANGED review
       ELSE /\ review' = ReportText
            /\ isProcessing' = FALSE
            /\ analysisStatus' = NoRecord
            /\ pc' = "done"
            /\ UNCHANGED <<error, failedStatus>>
    /\ UNCHANGED <<githubUrl, repoDataForWiki, architecturalSummaryForWiki, parsed, branch,
                   fileTree, structural, code, filesToFetch, rawPending, fetched, requests,
                   progressLog, archSummary, individualReviews, reviewIdx, genCalls>>
    /\ UNCHANGED <<abandoned, postVars>>

Next ==
    \/ \E u \in Urls : SetUrl(u)
    \/ HandleRepoAnalysis
    \/ \E status \in Statuses, b \in DefaultBranches : MetadataResponse(status, b)
    \/ \E status \in Statuses : BranchResponse(status, TreeSha)
    \/ \E status \in Statuses, tree \in TreeResponses : TreeResponse(status, tree)
    \/ \E i \in rawPending, status \in Statuses : RawResponse(i, status)
    \/ \E outcome \in GenOutcomes : SummaryResponse(outcome)
    \/ \E outcome \in GenOutcomes : ReviewResponse(outcome)
    \/ \E outcome \in GenOutcomes : SynthesisResponse(outcome)

Spec == Init /\ [][Next]_vars

\* the trees the termination of a run is explored on: structural and code
\* files, code files only, structural files only, nothing to select
LiveTrees ==
    { << [path |-> "package.json", type |-> "blob"], [path |-> "src/index.ts", type |-> "blob"] >>,
      << [path |-> "src/index.ts", type |-> "blob"], [path |-> "src/abc.ts", type |-> "blob"] >>,
      << [path |-> "package.json", type |-> "blob"] >>,
      << [path |-> "README.md", type |-> "blob"] >> }

\* the call the run is waiting for returns or fails
CallReturns ==
    \/ \E status \in Statuses, b \in DefaultBranches : MetadataResponse(status, b)
    \/ \E status \in Statuses : BranchResponse(status, TreeSha)
    \/ \E status \in Statuses, tree \in LiveTrees : TreeResponse(status, tree)
    \/ \E i \in rawPending, status \in Statuses : RawResponse(i, status)
    \/ \E outcome \in GenOutcomes : SummaryResponse(outcome)
    \/ \E outcome \in GenOutcomes : ReviewResponse(outcome)
    \/ \E outcome \in GenOutcomes : SynthesisResponse(outcome)

LiveNext ==
    \/ \E u \in Urls : SetUrl(u)
    \/ HandleRepoAnalysis
    \/ CallReturns

\* the pipeline when no network or generation call stays unanswered forever
FairSpec == Init /\ [][LiveNext]_vars /\ WF_vars(CallReturns)


(***************************************************************************)
(* geminiService.ts: post-analysis operations                              *)
(***************************************************************************)
\* a value is truthy for `&&` and `||`: neither undefined/null nor ''
Truthy(v) == v # NoValue /\ v # ""

RecommendationPrompt(report) ==
    [template |-> "RECOMMENDATION_PROMPT_TEMPLATE", values |-> <<report>>]

\* response.candidates?.[0]?.groundingMetadata?.groundingChunks || []
GroundingChunksOf(response) == IF response.grounded THEN response.chunks ELSE <<>>

KeepsChunk_UriOnly(chunk) == chunk.web # NoRecord /\ Truthy(chunk.web.uri)

\* chunk.web && chunk.web.uri && chunk.web.title
KeepsChunk(chunk) ==
    chunk.web # NoRecord /\ Truthy(chunk.web.uri) /\ Truthy(chunk.web.title)

\* groundingChunks.filter(...).map(chunk => ({ web: { uri, title } }))
GroundingSourcesOf(groundingChunks) ==
    LET kept == SelectSeq(groundingChunks, KeepsChunk)
    IN  [i \in DOMAIN kept |->
            [web |-> [uri |-> kept[i].web.uri, title |-> kept[i].web.title]]]

\* the value findRecommendedRepos returns for a response of the search call
RecommendedRepoOf(response) ==
    [text |-> response.text, sources |-> GroundingSourcesOf(GroundingChunksOf(response))]

VisualDocsPrompt(repoData, architecturalSummary) ==
    [template |-> "VISUAL_DOCS_PROMPT",
     values   |-> <<architecturalSummary,
                    FilesContent(repoData.structuralFiles \o repoData.codeFiles)>>]

\* JSON.stringify(visualDocs, null, 2) of the diagrams object
VisualDocsString(docs) ==
    "{\n  \"architectureDiagram\": \"" \o docs.architectureDiagram
        \o "\",\n  \"dependencyGraph\": \"" \o docs.dependencyGraph
        \o "\",\n  \"flowchart\": \"" \o docs.flowchart
        \o "\",\n  \"classDiagram\": \"" \o docs.classDiagram \o "\"\n}"

ChatSystemInstruction(repoData, architecturalSummary, docs) ==
    [template |-> "CHAT_SYSTEM_PROMPT",
     values   |-> <<architecturalSummary, VisualDocsString(docs),
                    FilesContent(repoData.structuralFiles \o repoData.codeFiles)>>]

ChatMessage(role, text) == [role |-> role, parts |-> <<[text |-> text]>>]

\* the chat created and the message sent by startOrContinueChat(history, ...)
ChatRequest(history, repoData, architecturalSummary, docs) ==
    [systemInstruction |-> ChatSystemInstruction(repoData, architecturalSummary, docs),
     history           |-> Slice(history, 0, Len(history) - 1),
     message           |-> history[Len(history)].parts]


(***************************************************************************)
(* App.tsx: the post-analysis handlers.  Each call to the generation API   *)
(* stays in flight until its response action; a new analysis run can start *)
(* meanwhile, because only isProcessing disables the URL input.            *)
(***************************************************************************)
runVars == <<githubUrl, review, isProcessing, analysisStatus, error, repoDataForWiki,
             architecturalSummaryForWiki, pc, parsed, branch, fileTree, structural, code,
             filesToFetch, rawPending, fetched, requests, failedStatus, progressLog,
             archSummary, individualReviews, reviewIdx, genCalls, abandoned>>

\* the report and the post-analysis section are rendered
PostAnalysisVisible == ~isProcessing /\ error = NoValue /\ review # ""

RecommendationsFailed(message) == "Failed to find recommendations: " \o message

DocumentationFailed(message) == "Failed to generate documentation: " \o message

ChatErrorNotice(message) == "Sorry, an error occurred: " \o message

\* responses of the search-augmented call: text, and grounding chunks when
\* the candidate carries grounding metadata
WebChunk(uri, title) == [web |-> [uri |-> uri, title |-> title]]

NonWebChunk == [web |-> NoRecord]

SearchResponses ==
    { [text |-> "Recommended: a/b", grounded |-> FALSE, chunks |-> <<>>],
      [text |-> "Recommended: a/b", grounded |-> TRUE,
       chunks |-> << WebChunk("https://b.example", "B"), NonWebChunk,
                     WebChunk("https://a.example", ""), WebChunk("https://a.example", "A"),
                     WebChunk(NoValue, "C") >>] }

SearchOutcomes ==
    {[ok |-> TRUE, response |-> r] : r \in SearchResponses}
        \union {[ok |-> FALSE, message |-> m] : m \in UpstreamErrors}

\* the diagrams object and the JSON text the generation API answers with
DocsData ==
    [architectureDiagram |-> "graph TD; App-->Service", dependencyGraph |-> "graph LR; a-->b",
     flowchart |-> "flowchart TD; s-->e", classDiagram |-> ""]

DocsOutcomes ==
    {[ok |-> TRUE, text |-> t] : t \in {VisualDocsString(DocsData), "Sorry, I cannot"}}
        \union {[ok |-> FALSE, message |-> m] : m \in UpstreamErrors}

\* JSON.parse(response.text): the value, or the SyntaxError it throws
JsonParse(text) ==
    IF text = VisualDocsString(DocsData)
    THEN [ok |-> TRUE, value |-> DocsData]
    ELSE [ok |-> FALSE, message |-> "Unexpected token 'S', \"" \o text \o "\" is not valid JSON"]

ChatInputs == {"What does it do?", "Where is the entry point?", "  "}

ChatReplyText(parts) == "About '" \o parts[1].text \o "': see src/index.ts"

MaxChatTurns == 2

\* handleFindRecommendations up to its await; the button is rendered while
\* there are no recommendations and is disabled while searching
HandleFindRecommendations ==
    /\ PostAnalysisVisible
    /\ recommendations = NoRecord
    /\ ~isSearchingRecs
    /\ review # ""
    /\ isSearchingRecs' = TRUE
    /\ recommendationError' = NoValue
    /\ recommendations' = NoRecord
    /\ recsCall' = RecommendationPrompt(review)
    /\ UNCHANGED <<runVars, isGeneratingDocs, visualDocs, docError, chatHistory, isChatting,
                   docsCall, chatCall, searchResponse>>

\* findRecommendedRepos resumes with the answer of the search-augmented call
RecommendationsResponse(outcome) ==
    /\ recsCall # NoRecord
    /\ IF outcome.ok
       THEN /\ recommendations' = RecommendedRepoOf(outcome.response)
            /\ searchResponse' = outcome.response
            /\ UNCHANGED recommendationError
       ELSE /\ recommendationError' = RecommendationsFailed(GeminiError(outcome.message))
            /\ UNCHANGED <<recommendations, searchResponse>>
    /\ isSearchingRecs' = FALSE
    /\ recsCall' = NoRecord
    /\ UNCHANGED <<runVars, isGeneratingDocs, visualDocs, docError, chatHistory, isChatting,
                   docsCall, chatCall>>

\* handleGenerateVisualDocs up to its await; the button is rendered while
\* there are no visual docs and is disabled while generating
HandleGenerateVisualDocs ==
    /\ PostAnalysisVisible
    /\ visualDocs = NoRecord
    /\ ~isGeneratingDocs
    /\ repoDataForWiki # NoRecord
    /\ architecturalSummaryForWiki # ""
    /\ isGeneratingDocs' = TRUE
    /\ docError' = NoValue
    /\ visualDocs' = NoRecord
    /\ docsCall' = VisualDocsPrompt(repoDataForWiki, architecturalSummaryForWiki)
    /\ UNCHANGED <<runVars, isSearchingRecs, recommendations, recommendationError,
                   chatHistory, isChatting, recsCall, chatCall, searchResponse>>

\* generateVisualDocumentation resumes with the answer of the generation
\* API; it has no catch, so the upstream Error or the SyntaxError of
\* JSON.parse reaches the handler as it is
VisualDocsResponse(outcome) ==
    /\ docsCall # NoRecord
    /\ IF ~outcome.ok
       THEN /\ docError' = DocumentationFailed(outcome.message)
            /\ UNCHANGED visualDocs
       ELSE IF ~JsonParse(outcome.text).ok
            THEN /\ docError' = DocumentationFailed(JsonParse(outcome.text).message)
                 /\ UNCHANGED visualDocs
            ELSE /\ visualDocs' = JsonParse(outcome.text).value
                 /\ UNCHANGED docError
    /\ isGeneratingDocs' = FALSE
    /\ docsCall' = NoRecord
    /\ UNCHANGED <<runVars, isSearchingRecs, recommendations, recommendationError,
                   chatHistory, isChatting, recsCall, chatCall, searchResponse>>

\* VisualDocumentation.handleSubmit and handleChatSubmit up to its await
HandleChatSubmit(message) ==
    /\ PostAnalysisVisible
    /\ visualDocs # NoRecord
    /\ Trim(message) # ""
    /\ ~isChatting
    /\ repoDataForWiki # NoRecord
    /\ architecturalSummaryForWiki # ""
    /\ Len(chatHistory) < 2 * MaxChatTurns
    /\ LET newUserMessage == ChatMessage("user", message)
       IN  /\ chatHistory' = Append(chatHistory, newUserMessage)
           /\ chatCall' = ChatRequest(Append(chatHistory, newUserMessage), repoDataForWiki,
                                      architecturalSummaryForWiki, visualDocs)
    /\ isChatting' = TRUE
    /\ UNCHANGED <<runVars, isSearchingRecs, recommendations, recommendationError,
                   isGeneratingDocs, visualDocs, docError, recsCall, docsCall,
                   searchResponse>>

\* startOrContinueChat resumes with the answer of chat.sendMessage; it has
\* no catch either
ChatResponse(outcome) ==
    /\ chatCall # NoRecord
    /\ chatHistory' =
          Append(chatHistory,
                 IF outcome.ok
                 THEN ChatMessage("model", ChatReplyText(chatCall.message))
                 ELSE ChatMessage("model", ChatErrorNotice(outcome.message)))
    /\ isChatting' = FALSE
    /\ chatCall' = NoRecord
    /\ UNCHANGED <<runVars, isSearchingRecs, recommendations, recommendationError,
                   isGeneratingDocs, visualDocs, docError, recsCall, docsCall,
                   searchResponse>>

\* the repository the post-analysis behaviours are explored on
WikiUrl == "https://github.com/o/r"

WikiTree ==
    << [path |-> "package.json", type |-> "blob"], [path |-> "src/index.ts", type |-> "blob"] >>

WikiNext ==
    \/ SetUrl(WikiUrl)
    \/ HandleRepoAnalysis
    \/ \E b \in DefaultBranches : MetadataResponse(200, b)
    \/ BranchResponse(200, TreeSha)
    \/ TreeResponse(200, WikiTree)
    \/ \E i \in rawPending : RawResponse(i, 200)
    \/ \E outcome \in GenOutcomes : SummaryResponse(outcome)
    \/ \E outcome \in GenOutcomes : ReviewResponse(outcome)
    \/ \E outcome \in GenOutcomes : SynthesisResponse(outcome)
    \/ HandleFindRecommendations
    \/ \E outcome \in SearchOutcomes : RecommendationsResponse(outcome)
    \/ HandleGenerateVisualDocs
    \/ \E outcome \in DocsOutcomes : VisualDocsResponse(outcome)
    \/ \E message \in ChatInputs : HandleChatSubmit(message)
    \/ \E outcome \in GenOutcomes : ChatResponse(outcome)

WikiSpec == Init /\ [][WikiNext]_vars


(***************************************************************************)
(* The source filter of findRecommendedRepos on its own: the initial state *)
(* draws the response of the search-augmented call and the one action      *)
(* builds the returned value.                                              *)
(***************************************************************************)
ChunkUris == {NoValue, "", "https://a.example", "https://b.example"}

ChunkTitles == {NoValue, "", "A", "B"}

ChunkUniverse == {NonWebChunk} \union {WebChunk(u, t) : u \in ChunkUris, t \in ChunkTitles}

MaxChunks == 2

ChunkLists == UNION {[1..n -> ChunkUniverse] : n \in 0..MaxChunks}

RecResponses ==
    {[text |-> "Recommended: a/b", grounded |-> TRUE, chunks |-> c] : c \in ChunkLists}
        \union {[text |-> "Recommended: a/b", grounded |-> FALSE, chunks |-> <<>>]}

RecInit ==
    /\ githubUrl = WikiUrl
    /\ review = ReportText
    /\ isProcessing = FALSE
    /\ analysisStatus = NoRecord
    /\ error = NoValue
    /\ repoDataForWiki = NoRecord
    /\ architecturalSummaryForWiki = ""
    /\ pc = "filter"
    /\ NoLocals
    /\ isSearchingRecs = TRUE
    /\ recommendations = NoRecord
    /\ recommendationError = NoValue
    /\ isGeneratingDocs = FALSE
    /\ visualDocs = NoRecord
    /\ docError = NoValue
    /\ chatHistory = <<>>
    /\ isChatting = FALSE
    /\ recsCall = RecommendationPrompt(ReportText)
    /\ docsCall = NoRecord
    /\ chatCall = NoRecord
    /\ searchResponse \in RecResponses

\* return { text, sources } of findRecommendedRepos, stored by the handler
FilterSources ==
    /\ pc = "filter"
    /\ recommendations' = RecommendedRepoOf(searchResponse)
    /\ isSearchingRecs' = FALSE
    /\ recsCall' = NoRecord
    /\ pc' = "filtered"
    /\ UNCHANGED <<githubUrl, review, isProcessing, analysisStatus, error, repoDataForWiki,
                   architecturalSummaryForWiki, parsed, branch, fileTree, structural, code,
                   filesToFetch, rawPending, fetched, requests, failedStatus, progressLog,
                   archSummary, individualReviews, reviewIdx, genCalls, abandoned,
                   recommendationError, isGeneratingDocs, visualDocs, docError, chatHistory,
                   isChatting, docsCall, chatCall, searchResponse>>

RecNext == FilterSources

RecSpec == RecInit /\ [][RecNext]_vars


(***************************************************************************)
(* selectFilesForAnalysis on its own: the initial state draws the input    *)
(* list and the one action applies the function.                           *)
(***************************************************************************)
\* repository paths the input lists are drawn from
SelPaths ==
    << "src/index.ts", "vite.config.ts", "node_modules/x.ts", "src/abc.ts", "README.md",
       "tsconfig.json", "src/App.tsx", "packages/a/package.json", "docs/guide.js",
       "src/Zed.ts", "package.json", "lib/test/b.py", "go.mod", "latest/x.ts",
       "lib/main.dart", "Gemfile", "pom.xml" >>

MaxSelPaths == 6

SelTrees ==
    { [i \in DOMAIN Pick(SelPaths, S, 1) |-> [path |-> Pick(SelPaths, S, 1)[i], type |-> "blob"]] :
        S \in {T \in SUBSET DOMAIN SelPaths : Cardinality(T) <= MaxSelPaths} }

SelInit ==
    /\ githubUrl = ""
    /\ review = ""
    /\ isProcessing = FALSE
    /\ analysisStatus = NoRecord
    /\ error = NoValue
    /\ repoDataForWiki = NoRecord
    /\ architecturalSummaryForWiki = ""
    /\ pc = "select"
    /\ parsed = NoRecord
    /\ branch = NoValue
    /\ fileTree \in SelTrees
    /\ structural = <<>>
    /\ code = <<>>
    /\ filesToFetch = <<>>
    /\ rawPending = {}
    /\ fetched = <<>>
    /\ requests = <<>>
    /\ failedStatus = NoNumber
    /\ progressLog = <<>>
    /\ archSummary = NoValue
    /\ individualReviews = <<>>
    /\ reviewIdx = 0
    /\ genCalls = <<>>
    /\ abandoned = 0
    /\ NoPostAnalysis

\* const { structural, code } = selectFilesForAnalysis(fileTree)
SelectFiles ==
    /\ pc = "select"
    /\ LET sel == selectFilesForAnalysis(fileTree)
       IN  /\ structural' = sel.structural
           /\ code' = sel.code
           /\ filesToFetch' = sel.structural \o sel.code
    /\ pc' = "selected"
    /\ UNCHANGED <<githubUrl, review, isProcessing, analysisStatus, error, repoDataForWiki,
                   architecturalSummaryForWiki, parsed, branch, fileTree, rawPending,
                   fetched, requests, failedStatus, progressLog, archSummary,
                   individualReviews, reviewIdx, genCalls>>
    /\ UNCHANGED <<abandoned, postVars>>

SelNext == SelectFiles

SelSpec == SelInit /\ [][SelNext]_vars


(***************************************************************************)
(* Properties of the file selector (checked under SelSpec)                 *)
(***************************************************************************)
InputPaths == Range(PathsOf(fileTree))

Selected == pc = "selected"

NoDuplicates(s) == \A i, j \in DOMAIN s : s[i] = s[j] => i = j

\* the segments of a path, and those that name a directory (all but the last)
Segments(path) == Split(path, "/")

DirSegments(path) == {Segments(path)[i] : i \in 1..(Len(Segments(path)) - 1)}

LastSegment(path) == Segments(path)[Len(Segments(path))]

HasSourceExtension(path) == \E e \in Range(codeExtensions) : EndsWith(path, e)

InExcludedDir(path) == DirSegments(path) \cap Range(nonCodeDirs) # {}

Qualifying == {p \in InputPaths : HasSourceExtension(p) /\ ~InExcludedDir(p)}

\* C2: the structural list and the code list returned by
\* selectFilesForAnalysis have no path in common.
C2_ListsDisjoint == Range(structural) \cap Range(code) = {}

\* C4: the code list returned by selectFilesForAnalysis has at most 5
\* elements, whatever the size of the input.
C4_AtMostFiveCodePaths == Len(code) <= 5

C4_Witness == Selected /\ Cardinality(Qualifying) > 5 /\ Len(code) = 5

SpecExampleInput ==
    << "src/index.ts", "node_modules/x.ts", "README.md", "src/App.tsx", "docs/guide.js" >>

\* C5: a path with a source extension is never in the code list when one of
\* its directory segments (the first or a nested one) is on the exclude-list;
\* for the example input of the specification the code list is
\* [src/index.ts, src/App.tsx] and the structural list is empty.
C5_ExcludeListWins ==
    Selected =>
        /\ \A p \in InputPaths :
              HasSourceExtension(p) /\ InExcludedDir(p) => p \notin Range(code)
        /\ PathsOf(fileTree) = SpecExampleInput =>
              code = <<"src/index.ts", "src/App.tsx">> /\ structural = <<>>

C5_Witness ==
    /\ Selected
    /\ {"node_modules/x.ts", "lib/test/b.py", "latest/x.ts"} \subseteq InputPaths
    /\ code = <<"latest/x.ts">>

C5_ExampleWitness ==
    Selected /\ PathsOf(fileTree) = SpecExampleInput /\ Len(code) = 2


\* code-unit (ASCII) order of the characters paths are written with
CodeUnitOrder == "-./0123456789ABCDEFGHIJKLMNOPQRSTUVWXYZ_abcdefghijklmnopqrstuvwxyz"

CodeUnitTable ==
    [c \in CharsOf(CodeUnitOrder) |->
        CHOOSE i \in 1..Len(CodeUnitOrder) : CharAt(CodeUnitOrder, i) = c]

\* a precedes b in lexicographic order of the strings' code units
LexicographicallyBefore(a, b) == CompareWeights(a, b, CodeUnitTable, 1) < 0

\* a precedes b in the order of String.prototype.localeCompare
LocaleBefore(a, b) == LocaleCompare(a, b) < 0

InPriorityList(p) == p \in Range(CODE_FILE_PRIORITY)

\* a ranks before b: priority paths first, by their position in the priority
\* list; the other paths after them, by Before
RanksBefore(a, b, Before(_, _)) ==
    IF InPriorityList(a) /\ InPriorityList(b)
    THEN IndexOf(CODE_FILE_PRIORITY, a) < IndexOf(CODE_FILE_PRIORITY, b)
    ELSE IF InPriorityList(a) THEN TRUE
    ELSE IF InPriorityList(b) THEN FALSE
    ELSE Before(a, b)

Min(a, b) == IF a < b THEN a ELSE b

\* the code list is the first 5 elements of the ranking of the qualifying paths
IsTopFiveOfRanking(Before(_, _)) ==
    /\ Range(code) \subseteq Qualifying
    /\ NoDuplicates(code)
    /\ Len(code) = Min(5, Cardinality(Qualifying))
    /\ \A i, j \in DOMAIN code : i < j => RanksBefore(code[i], code[j], Before)
    /\ \A p \in Qualifying \ Range(code) :
          \A i \in DOMAIN code : RanksBefore(code[i], p, Before)

\* C6 as stated: the code list is the first 5 of the ranking with priority
\* paths first in priority order, then the other qualifying paths in ascending
\* lexicographic order of the path string.
C6_LexicographicRanking == Selected => IsTopFiveOfRanking(LexicographicallyBefore)

\* C6 as amended: the code list is the first 5 of the ranking with priority
\* paths first in priority order, then the other qualifying paths in ascending
\* localeCompare order (letters compared regardless of case first, lower case
\* before upper case on ties); no non-priority path precedes a priority path.
C6_LocaleRanking ==
    Selected =>
        /\ IsTopFiveOfRanking(LocaleBefore)
        /\ \A i, j \in DOMAIN code :
              ~InPriorityList(code[i]) /\ InPriorityList(code[j]) => j < i

C6_Witness ==
    /\ Selected
    /\ Cardinality(Qualifying) > 5
    /\ {"src/index.ts", "src/App.tsx", "src/abc.ts", "src/Zed.ts"} \subseteq Range(code)
    /\ IndexOf(code, "src/index.ts") < IndexOf(code, "src/App.tsx")
    /\ IndexOf(code, "src/abc.ts") < IndexOf(code, "src/Zed.ts")

\* C7 as stated: a path is in the structural list exactly when its final
\* segment is one of the allow-listed manifest names, at any depth.
C7_FinalSegmentMatch ==
    Selected =>
        \A p \in InputPaths :
            p \in Range(structural) <=> LastSegment(p) \in Range(STRUCTURAL_FILE_PATTERNS)

\* C7 as amended: a path is in the structural list exactly when its full
\* repository-relative path is one of the allow-listed manifest names (no
\* partial or glob match), so only a manifest at the repository root is
\* selected; every matching path is returned once, in input order, and none
\* is dropped by truncation.
C7_FullPathMatch ==
    Selected =>
        /\ \A p \in InputPaths :
              p \in Range(structural) <=> p \in Range(STRUCTURAL_FILE_PATTERNS)
        /\ NoDuplicates(structural)
        /\ \A i, j \in DOMAIN structural :
              i < j => IndexOf(PathsOf(fileTree), structural[i])
                         < IndexOf(PathsOf(fileTree), structural[j])

C7_Witness ==
    /\ Selected
    /\ "packages/a/package.json" \in InputPaths \ Range(structural)
    /\ "package.json" \in Range(structural)

C7_NoTruncationWitness == Selected /\ Len(structural) > 5


(***************************************************************************)
(* Properties of startRepositoryAnalysis (checked under Spec)              *)
(***************************************************************************)
IsRawRequest(u) == StartsWith(u, "https://raw.githubusercontent.com/")

IsBranchRequest(u) == StartsWith(u, "https://api.github.com/repos/") /\ Includes(u, "/branches/")

IsTreeRequest(u) == StartsWith(u, "https://api.github.com/repos/") /\ Includes(u, "/git/trees/")

IsMetadataRequest(u) ==
    StartsWith(u, "https://api.github.com/repos/") /\ ~IsBranchRequest(u) /\ ~IsTreeRequest(u)

NonSuccess(status) == status \notin 200..299

\* the URL parses, its host is github.com and its path has at least two
\* non-empty segments
IsRepositoryUrl(url) ==
    LET u == ParseURL(url)
    IN  /\ u.ok
        /\ u.hostname = "github.com"
        /\ Cardinality({i \in DOMAIN Segments(u.pathname) : Segments(u.pathname)[i] # ""}) >= 2

\* C1: a run started with a URL that does not parse, whose host is not
\* github.com or whose path has fewer than two non-empty segments fails with
\* the invalid-URL error, and no network request has been issued when it fails.
C1_InvalidUrlRejectedBeforeNetwork ==
    [][(HandleRepoAnalysis /\ Trim(githubUrl) # "" /\ ~IsRepositoryUrl(githubUrl))
          => /\ pc' = "done"
             /\ ~isProcessing'
             /\ error' = "Analysis Failed: " \o InvalidUrlMessage
             /\ requests' = <<>>]_vars

C1_Witness ==
    /\ pc = "done"
    /\ githubUrl = "https://github.com/o?x/y"
    /\ error = "Analysis Failed: " \o InvalidUrlMessage
    /\ progressLog = <<InitializingStatus>>
    /\ requests = <<>>

Count(s, x) == Cardinality({i \in DOMAIN s : s[i] = x})

\* C3: the RepoAnalysisData returned by a successful startRepositoryAnalysis
\* has at most 5 codeFiles, and every fetched file appears exactly once in
\* exactly one of structuralFiles and codeFiles.
C3_ReturnedDataPartitionsFetchedFiles ==
    repoDataForWiki # NoRecord =>
        /\ Len(repoDataForWiki.codeFiles) <= 5
        /\ \A i \in DOMAIN fetched :
              Count(repoDataForWiki.structuralFiles, fetched[i])
                 + Count(repoDataForWiki.codeFiles, fetched[i]) = 1

\* the returned codeFiles never hold more than 5 entries
C3_AtMostFiveCodeFiles == repoDataForWiki # NoRecord => Len(repoDataForWiki.codeFiles) <= 5

\* C8: a non-success answer to the repository-metadata request makes the run
\* fail with an error whose message contains the HTTP status, and no branch,
\* tree or raw-content request is issued in that run.
C8_MetadataFailureStopsRun ==
    [][\A status \in Statuses :
          (NonSuccess(status) /\ \E b \in DefaultBranches : MetadataResponse(status, b))
             => /\ pc' = "done"
                /\ StartsWith(error', "Analysis Failed: Could not fetch repository data.")
                /\ Includes(error', NumToString(status))
                /\ requests' = requests
                /\ Len(requests') = 1
                /\ IsMetadataRequest(requests'[1])]_vars

C8_Witness ==
    /\ pc = "done"
    /\ failedStatus = <<404>>
    /\ Includes(error, "404")
    /\ Len(requests) = 1
    /\ IsMetadataRequest(requests[1])

\* a hosting-API response with this status is handed to the run
HostingResponse(status) ==
    \/ \E b \in DefaultBranches : MetadataResponse(status, b)
    \/ BranchResponse(status, TreeSha)
    \/ \E tree \in TreeResponses : TreeResponse(status, tree)
    \/ \E i \in rawPending : RawResponse(i, status)

\* C9: whenever a hosting-API request of a run (metadata, branch, tree or raw
\* content) is answered with a non-success status, the error shown to the
\* user carries that status.
C9_ErrorCarriesHttpStatus ==
    [][\A status \in Statuses :
          (NonSuccess(status) /\ HostingResponse(status))
             => Includes(error', NumToString(status))]_vars

\* C10: when the selector returns an empty structural list and an empty code
\* list, the run fails with the no-relevant-files error, no raw-content
\* request is issued, and exactly the metadata, branch and tree requests have
\* been made.
C10_EmptySelectionFails ==
    [][(/\ pc = "awaitTree"
        /\ structural' = <<>>
        /\ code' = <<>>
        /\ \E status \in Statuses, tree \in TreeResponses :
              ~NonSuccess(status) /\ TreeResponse(status, tree))
          => /\ pc' = "done"
             /\ error' = "Analysis Failed: " \o NoFilesMessage
             /\ Len(requests') = 3
             /\ IsMetadataRequest(requests'[1])
             /\ IsBranchRequest(requests'[2])
             /\ IsTreeRequest(requests'[3])
             /\ \A i \in DOMAIN requests' : ~IsRawRequest(requests'[i])]_vars

C10_Witness ==
    /\ pc = "done"
    /\ fileTree # <<>>
    /\ structural = <<>>
    /\ code = <<>>
    /\ error = "Analysis Failed: " \o NoFilesMessage
    /\ Len(requests) = 3
    /\ \A i \in DOMAIN requests : ~IsRawRequest(requests[i])


\* a raw-content download of the fan-out is answered with a non-success status
RawDownloadFails ==
    \E i \in rawPending, status \in Statuses : NonSuccess(status) /\ RawResponse(i, status)

\* C11: when one of the concurrent raw-content downloads fails, the run fails
\* at that very step, whatever number of other downloads is still in flight;
\* no RepoAnalysisData is stored or passed to the generation stages, and no
\* request is issued again.
C11_FirstDownloadFailureAbortsRun ==
    [][RawDownloadFails
          => /\ pc' = "done"
             /\ ~isProcessing'
             /\ StartsWith(error', "Analysis Failed: Failed to fetch ")
             /\ repoDataForWiki' = NoRecord
             /\ genCalls' = <<>>
             /\ review' = ""
             /\ requests' = requests]_vars

\* a download failed while one had already succeeded and another was in flight
C11_Witness ==
    /\ pc = "done"
    /\ StartsWith(error, "Analysis Failed: Failed to fetch ")
    /\ abandoned >= 1
    /\ Len(filesToFetch) - 1 - abandoned >= 1
    /\ repoDataForWiki = NoRecord
    /\ genCalls = <<>>

\* the last raw-content download succeeds and completes the Fetcher's result
FetcherReturns ==
    \E i \in rawPending, status \in Statuses :
        /\ ~NonSuccess(status)
        /\ rawPending = {i}
        /\ RawResponse(i, status)

\* C12: when the Fetcher succeeds with only structural files (no code file
\* was selected), the run fails with the no-reviewable-code error and no
\* generation-API call is made.
C12_NoCodeFilesFailsBeforeGeneration ==
    [][(code = <<>> /\ FetcherReturns)
          => /\ pc' = "done"
             /\ ~isProcessing'
             /\ error' = "Analysis Failed: " \o NoCodeFilesMessage
             /\ genCalls' = <<>>
             /\ review' = ""]_vars

C12_Witness ==
    /\ pc = "done"
    /\ structural # <<>>
    /\ code = <<>>
    /\ DOMAIN fetched = DOMAIN filesToFetch
    /\ error = "Analysis Failed: " \o NoCodeFilesMessage
    /\ genCalls = <<>>


\* the generation-API calls of the run that use the given prompt template
CallsOf(template) == SelectSeq(genCalls, LAMBDA call : call.template = template)

ArchitectureCalls == CallsOf("ARCHITECTURE_PROMPT_TEMPLATE")

ReviewCalls == CallsOf("FILE_REVIEW_PROMPT_TEMPLATE")

SynthesisCalls == CallsOf("SYNTHESIS_PROMPT_TEMPLATE")

\* C13: with an empty structural file list the architecture summary is the
\* fixed placeholder sentence and no architecture call is made; with a
\* non-empty list exactly one architecture call is made.
C13_PlaceholderWithoutCall ==
    repoDataForWiki # NoRecord =>
        IF repoDataForWiki.structuralFiles = <<>>
        THEN /\ ArchitectureCalls = <<>>
             /\ archSummary =
                   "No structural files (like package.json) were found to determine the project's architecture."
        ELSE /\ Len(ArchitectureCalls) = 1
             /\ genCalls[1] = ArchitecturePrompt(repoDataForWiki.structuralFiles)

\* the placeholder was used and the pipeline went on to the reviews
C13_Witness ==
    /\ repoDataForWiki # NoRecord
    /\ repoDataForWiki.structuralFiles = <<>>
    /\ archSummary = NoStructuralFilesSummary
    /\ ArchitectureCalls = <<>>
    /\ ReviewCalls # <<>>

\* one architecture call was made for a non-empty structural list
C13_CallWitness ==
    /\ repoDataForWiki # NoRecord
    /\ repoDataForWiki.structuralFiles # <<>>
    /\ archSummary = SummaryText
    /\ Len(ArchitectureCalls) = 1

\* the review calls are issued one at a time and the synthesis call only
\* after every review call has returned
ReviewsOneAtATime ==
    /\ Len(ReviewCalls) <= Len(individualReviews) + 1
    /\ SynthesisCalls # <<>> =>
          /\ Len(SynthesisCalls) = 1
          /\ genCalls[Len(genCalls)].template = "SYNTHESIS_PROMPT_TEMPLATE"
          /\ Len(individualReviews) = Len(ReviewCalls)

\* C14: exactly one review call is made per selected code path, in the order
\* of the selector's ranked code list, one at a time; the synthesis call is
\* issued only after all review calls have returned.
C14_OneReviewPerRankedCodePath ==
    repoDataForWiki # NoRecord =>
        /\ Len(ReviewCalls) <= Len(code)
        /\ \A j \in DOMAIN ReviewCalls : ReviewCalls[j].values[2] = code[j]
        /\ ReviewsOneAtATime
        /\ SynthesisCalls # <<>> => Len(ReviewCalls) = Len(code)

\* the ranked-order statement holds in every run whose two selector lists
\* share no path
C14_HoldsForDisjointLists ==
    (\A j \in DOMAIN code : ~ArrIncludes(structural, code[j]))
        => C14_OneReviewPerRankedCodePath

\* what the review loop does do: one call per entry of repoData.codeFiles, in
\* the order of that list, one at a time
C14_OneReviewPerCodeFileEntry ==
    repoDataForWiki # NoRecord =>
        /\ Len(ReviewCalls) <= Len(repoDataForWiki.codeFiles)
        /\ \A j \in DOMAIN ReviewCalls :
              ReviewCalls[j] = FileReviewPrompt(repoDataForWiki.codeFiles[j], archSummary)
        /\ ReviewsOneAtATime
        /\ SynthesisCalls # <<>> => Len(ReviewCalls) = Len(repoDataForWiki.codeFiles)

IsReviewing == analysisStatus # NoRecord /\ analysisStatus.stage = "REVIEWING"

\* C15: a reported REVIEWING progress of (k, total) implies that k review
\* calls have already returned.
C15_ProgressAfterCall ==
    IsReviewing => Len(individualReviews) >= analysisStatus.current

\* C15 as the code behaves: progress (k, total) is reported before the k-th
\* review call is issued, so k - 1 review calls have returned and the k-th is
\* in flight.
C15_ProgressBeforeCall ==
    IsReviewing =>
        /\ pc = "awaitReview"
        /\ Len(individualReviews) = analysisStatus.current - 1
        /\ Len(ReviewCalls) = analysisStatus.current
        /\ analysisStatus.total = Len(repoDataForWiki.codeFiles)

C15_Witness ==
    /\ IsReviewing
    /\ analysisStatus.current = 2
    /\ Len(individualReviews) = 1
    /\ Len(ReviewCalls) = 2

\* a generation-API call of the run is answered with an Error
GenerationFails(message) ==
    LET outcome == [ok |-> FALSE, message |-> message]
    IN  SummaryResponse(outcome) \/ ReviewResponse(outcome) \/ SynthesisResponse(outcome)

RunAborted == pc = "done" /\ error # NoValue /\ StartsWith(error, "Analysis Failed: ")

\* the Fetcher had returned at least one code file before the run ended
FetchedWithCode ==
    /\ filesToFetch # <<>>
    /\ DOMAIN fetched = DOMAIN filesToFetch
    /\ code # <<>>

\* C17: after a run has been aborted, the report is empty and the stored
\* repository data and architecture summary are at their reset values.
C17_FailureResetsStoredData ==
    RunAborted =>
        /\ review = ""
        /\ repoDataForWiki = NoRecord
        /\ architecturalSummaryForWiki = ""

\* C17 as the code behaves: the report is empty, and the stored repository
\* data and architecture summary are what the run had stored before it
\* failed; the failure does not reset them.
C17_FailureKeepsStoredData ==
    RunAborted =>
        /\ review = ""
        /\ repoDataForWiki =
              IF FetchedWithCode THEN RepoDataOf(fetched, structural, code) ELSE NoRecord
        /\ architecturalSummaryForWiki = IF archSummary = NoValue THEN "" ELSE archSummary

\* a review failed after the repository data and the summary had been stored
C17_Witness ==
    /\ RunAborted
    /\ review = ""
    /\ repoDataForWiki # NoRecord
    /\ architecturalSummaryForWiki = SummaryText
    /\ ReviewCalls # <<>>



(***************************************************************************)
(* Properties of the post-analysis operations                              *)
(***************************************************************************)
\* the uniform wrapped error of the generation API for an upstream message
WrappedGenerationFailure(message) == "Gemini API Error: " \o message

LastChatText == chatHistory[Len(chatHistory)].parts[1].text

\* C18: every generation-API operation (architecture summary, file review,
\* synthesis, recommendation lookup, visual-documentation generation, chat
\* turn) reports a failure of the underlying call as the same wrapped error
\* carrying the upstream message.
C18_EveryOperationWrapsFailure ==
    [][\A message \in UpstreamErrors :
          LET failure == [ok |-> FALSE, message |-> message]
              wrapped == WrappedGenerationFailure(message)
          IN  /\ GenerationFails(message) => Includes(error', wrapped)
              /\ RecommendationsResponse(failure) => Includes(recommendationError', wrapped)
              /\ VisualDocsResponse(failure) => Includes(docError', wrapped)
              /\ ChatResponse(failure) => Includes(LastChatText', wrapped)]_vars

\* the operations that go through callGeminiWithRetry or have their own
\* catch do wrap the failure
C18_PipelineAndRecommendationsWrap ==
    [][\A message \in UpstreamErrors :
          LET failure == [ok |-> FALSE, message |-> message]
              wrapped == WrappedGenerationFailure(message)
          IN  /\ GenerationFails(message) => Includes(error', wrapped)
              /\ RecommendationsResponse(failure) => Includes(recommendationError', wrapped)]_vars

\* a citation has a web part with a non-empty URI and a non-empty title
HasUriAndTitle(chunk) ==
    /\ chunk.web # NoRecord
    /\ chunk.web.uri \notin {NoValue, ""}
    /\ chunk.web.title \notin {NoValue, ""}

\* the citations of the response (none without grounding metadata)
Citations == IF searchResponse.grounded THEN searchResponse.chunks ELSE <<>>

CompleteIndices == {i \in DOMAIN Citations : HasUriAndTitle(Citations[i])}

\* the position in Citations of the k-th citation that has both fields
KthComplete(k) ==
    CHOOSE i \in CompleteIndices : Cardinality({j \in CompleteIndices : j <= i}) = k

\* C19: findRecommendedRepos returns exactly the citations that have both a
\* non-empty URI and a non-empty title, with that URI and title, in their
\* original relative order; a response without grounding metadata yields an
\* empty source list.
C19_SourcesAreCompleteCitations ==
    pc = "filtered" =>
        /\ recommendations.text = searchResponse.text
        /\ Len(recommendations.sources) = Cardinality(CompleteIndices)
        /\ \A k \in DOMAIN recommendations.sources :
              /\ recommendations.sources[k].web.uri = Citations[KthComplete(k)].web.uri
              /\ recommendations.sources[k].web.title = Citations[KthComplete(k)].web.title
        /\ ~searchResponse.grounded => recommendations.sources = <<>>

\* a citation without a title was dropped and the complete one after it kept
C19_Witness ==
    /\ pc = "filtered"
    /\ Len(Citations) = 2
    /\ Citations[1].web # NoRecord
    /\ Citations[1].web.uri = "https://a.example"
    /\ Citations[1].web.title = ""
    /\ recommendations.sources = <<WebChunk("https://b.example", "B")>>

\* two complete citations were kept in their order
C19_OrderWitness ==
    /\ pc = "filtered"
    /\ recommendations.sources =
          <<WebChunk("https://b.example", "B"), WebChunk("https://a.example", "A")>>

\* the chat history is user and model messages in turn, starting with a user
\* message
TurnsAlternate ==
    \A i \in DOMAIN chatHistory :
        chatHistory[i].role = IF i % 2 = 1 THEN "user" ELSE "model"

\* a step leaves the chat history alone, appends one message to it, or is
\* the reset at the start of a new analysis run, which ends the conversation
AppendOnlyStep ==
    \/ chatHistory' = chatHistory
    \/ /\ Len(chatHistory') = Len(chatHistory) + 1
       /\ SubSeq(chatHistory', 1, Len(chatHistory)) = chatHistory
    \/ HandleRepoAnalysis /\ chatHistory' = <<>>

\* a submitted turn appends the user message and sends the earlier messages
\* as history together with the new message
SubmitCarriesHistory ==
    \A message \in ChatInputs :
        HandleChatSubmit(message) =>
            /\ chatHistory' = Append(chatHistory, ChatMessage("user", message))
            /\ chatCall'.history = chatHistory
            /\ chatCall'.message = <<[text |-> message]>>

\* the answer of a turn appends exactly one model-role message
ReplyAppendsModelMessage ==
    (\E outcome \in GenOutcomes : ChatResponse(outcome)) =>
        /\ Len(chatHistory') = Len(chatHistory) + 1
        /\ chatHistory'[Len(chatHistory')].role = "model"

\* C20: within one conversation the chat history is append-only; each
\* submitted turn appends the user message and then exactly one model-role
\* message, so the history is the completed turns in order, and the request
\* of a turn carries all messages of the earlier turns plus the new user
\* message.
C20_HistoryIsAppendOnlyTurns ==
    [][/\ AppendOnlyStep
       /\ SubmitCarriesHistory
       /\ ReplyAppendsModelMessage
       /\ TurnsAlternate']_vars

\* the steps themselves do append and do carry the whole history
C20_StepsAppend ==
    [][AppendOnlyStep /\ SubmitCarriesHistory /\ ReplyAppendsModelMessage]_vars

(***************************************************************************)
(* Properties of runs that follow an earlier run                            *)
(***************************************************************************)

\* the state resetState() leaves behind
PreviousRunCleared ==
    /\ review = ""
    /\ recommendations = NoRecord
    /\ recommendationError = NoValue
    /\ visualDocs = NoRecord
    /\ docError = NoValue
    /\ repoDataForWiki = NoRecord
    /\ architecturalSummaryForWiki = ""
    /\ chatHistory = <<>>

\* the step of a run that issues the run's first network request
IssuesFirstRequest == Len(requests') = 1 /\ requests' # requests

\* C21: when an analysis run is started with a non-blank URL, the report, the
\* recommendations and their error, the visual docs and their error, the stored
\* repository data, the stored architecture summary and the chat history are
\* at their empty values, and the error of the previous run is cleared, by the
\* time the run has issued its first network request.
C21_NewRunResetsPreviousState ==
    [][(Trim(githubUrl) # "" /\ HandleRepoAnalysis)
          => /\ PreviousRunCleared'
             /\ (IssuesFirstRequest => error' = NoValue)]_vars

\* a run has just issued its first request while a chat turn of the previous
\* run is still in flight: the previous run had a report, visual docs and a
\* chat history, and all of them are empty now
C21_Witness ==
    /\ pc = "awaitMetadata"
    /\ Len(requests) = 1
    /\ chatCall # NoRecord
    /\ PreviousRunCleared
    /\ error = NoValue

(***************************************************************************)
(* Properties of the pipeline as a whole                                    *)
(***************************************************************************)

\* the contents of the selected files of a tree, in the order of their requests
FilesInRequestOrder(tree) ==
    LET sel   == selectFilesForAnalysis(tree)
        files == sel.structural \o sel.code
    IN  [i \in DOMAIN files |-> [path |-> files[i], content |-> ContentOf(files[i])]]

\* the generation prompts of a complete run over a tree, in order, when the
\* generation API answers every call with the text fixed for that call
PromptsOf(tree) ==
    LET sel     == selectFilesForAnalysis(tree)
        data    == RepoDataOf(FilesInRequestOrder(tree), sel.structural, sel.code)
        summary == IF Len(data.structuralFiles) = 0
                   THEN NoStructuralFilesSummary ELSE SummaryText
        arch    == IF Len(data.structuralFiles) = 0
                   THEN <<>> ELSE <<ArchitecturePrompt(data.structuralFiles)>>
        reviews == [i \in DOMAIN data.codeFiles |->
                       FileReviewPrompt(data.codeFiles[i], summary)]
        tagged  == [i \in DOMAIN data.codeFiles |->
                       TaggedReview(data.codeFiles[i].path,
                                    ReviewText(data.codeFiles[i].path))]
    IN  arch \o reviews \o <<SynthesisPrompt(Join(tagged, "\n\n"))>>

IsPrefixOf(s, t) == Len(s) <= Len(t) /\ SubSeq(t, 1, Len(s)) = s

\* C22: the generation prompts a run issues, and the report it produces, are
\* determined by the repository responses alone: whatever the order in which
\* the concurrent raw-content downloads complete, the prompts issued so far
\* are the first prompts of the one sequence fixed by the file tree, and a run
\* that produced a report issued exactly that sequence.
C22_PromptsIndependentOfDownloadOrder ==
    /\ genCalls # <<>> => IsPrefixOf(genCalls, PromptsOf(fileTree))
    /\ review # "" => genCalls = PromptsOf(fileTree) /\ review = ReportText

\* a run over at least two code files and a structural file has produced its
\* report
C22_Witness ==
    /\ review # ""
    /\ Len(repoDataForWiki.codeFiles) >= 2
    /\ Len(repoDataForWiki.structuralFiles) >= 1
    /\ genCalls = PromptsOf(fileTree)

\* downloads do complete out of request order
C22_OutOfOrderWitness ==
    /\ pc = "awaitRaw"
    /\ \E i \in rawPending : \E j \in DOMAIN fetched : i < j

\* the order of the stages of a run
StageOrder == <<"INITIALIZING", "FETCHING", "SUMMARIZING", "REVIEWING", "SYNTHESIZING">>

StageRank(stage) == CHOOSE k \in DOMAIN StageOrder : StageOrder[k] = stage

ReportedStages == {progressLog[i].stage : i \in DOMAIN progressLog}

\* the work of a stage of this run completed without error
StageCompleted(stage) ==
    CASE stage = "INITIALIZING" -> parsed # NoRecord
      [] stage = "FETCHING"     -> /\ filesToFetch # <<>>
                                   /\ DOMAIN fetched = DOMAIN filesToFetch
                                   /\ repoDataForWiki # NoRecord
      [] stage = "SUMMARIZING"  -> archSummary # NoValue
      [] stage = "REVIEWING"    -> /\ repoDataForWiki # NoRecord
                                   /\ Len(individualReviews) = Len(repoDataForWiki.codeFiles)
      [] stage = "SYNTHESIZING" -> review # ""

\* C23: the stages reported through the progress callback never go backwards in
\* the order INITIALIZING, FETCHING, SUMMARIZING, REVIEWING, SYNTHESIZING; a
\* stage is reported only when every earlier stage has been reported and has
\* completed without error; and a run that produced a report has reported all
\* five stages.
C23_StagesInOrder ==
    /\ \A i, j \in DOMAIN progressLog :
          i < j => StageRank(progressLog[i].stage) <= StageRank(progressLog[j].stage)
    /\ \A s \in ReportedStages :
          \A k \in 1..(StageRank(s) - 1) :
             /\ StageOrder[k] \in ReportedStages
             /\ StageCompleted(StageOrder[k])
    /\ review # "" => ReportedStages = Range(StageOrder)

\* a run has produced its report after reporting every stage, the review stage
\* more than once
C23_Witness ==
    /\ review # ""
    /\ ReportedStages = Range(StageOrder)
    /\ Cardinality({i \in DOMAIN progressLog : progressLog[i].stage = "REVIEWING"}) >= 2

\* a run that failed while summarizing has reported the first three stages only
C23_FailedRunWitness ==
    /\ error # NoValue
    /\ ReportedStages = {"INITIALIZING", "FETCHING", "SUMMARIZING"}

\* startRepositoryAnalysis has returned its data: every raw fetch was answered
FetcherSucceeded ==
    /\ filesToFetch # <<>>
    /\ DOMAIN fetched = DOMAIN filesToFetch

SelectedPaths == Range(structural) \union Range(code)

RawRequestsFor(path) ==
    {k \in DOMAIN requests : requests[k] = RawUrl(parsed, branch, path)}

\* C24: a successful startRepositoryAnalysis has issued exactly one raw-content
\* request for each distinct selected path, hence 3 + N hosting requests in
\* all, N being the number of distinct selected paths.
C24_OneRequestPerDistinctPath ==
    FetcherSucceeded =>
       /\ \A p \in SelectedPaths : Cardinality(RawRequestsFor(p)) = 1
       /\ Len(requests) = 3 + Cardinality(SelectedPaths)

\* what does hold: one request per entry of the two lists, and 3 + N requests
\* whenever the two lists have no path in common
C24_OneRequestPerListEntry ==
    FetcherSucceeded =>
       /\ Len(requests) = 3 + Len(structural) + Len(code)
       /\ (Range(structural) \cap Range(code) = {}
              => /\ \A p \in SelectedPaths : Cardinality(RawRequestsFor(p)) = 1
                 /\ Len(requests) = 3 + Cardinality(SelectedPaths))

\* a Fetcher that succeeded after requesting one path twice
C24_DuplicateRequestWitness ==
    /\ FetcherSucceeded
    /\ \E p \in SelectedPaths : Cardinality(RawRequestsFor(p)) = 2

\* While a run is in progress the post-analysis section is not rendered, so
\* no lookup, documentation request or chat turn can be started for that run:
\* whatever the run finds in these fields was produced for an earlier run.
HoldsNothingOfEarlierRun ==
    /\ recommendations = NoRecord
    /\ recommendationError = NoValue
    /\ visualDocs = NoRecord
    /\ docError = NoValue
    /\ chatHistory = <<>>

\* C25: the late result of a recommendation lookup, documentation generation
\* or chat turn that was started for the previous run is never written into
\* the state of a new run: while the new run is in progress, recommendations,
\* visual docs and chat history (and the two errors) still hold the empty
\* values its reset gave them.
C25_NoLateResultInNewRun == isProcessing => HoldsNothingOfEarlierRun

\* the three late writes, one by one
C25_LateRecommendations == isProcessing /\ recommendations # NoRecord

C25_LateVisualDocs == isProcessing /\ visualDocs # NoRecord

C25_LateChatReply == isProcessing /\ chatHistory # <<>>

\* the late documentation is what the user is shown for the new run
C25_StaleDocsShownForNewRun ==
    /\ PostAnalysisVisible
    /\ visualDocs # NoRecord
    /\ docsCall = NoRecord
    /\ ~isGeneratingDocs
    /\ abandoned = 0
    /\ Len(progressLog) > 0
    /\ chatHistory # <<>>
    /\ chatHistory[1].role = "model"

(***************************************************************************)
(* The priority list against the code-file test                             *)
(***************************************************************************)

\* the number of priority-list paths of the input that rank before entry k
HigherPriorityPresent(k) ==
    Cardinality({j \in 1..(k - 1) : CODE_FILE_PRIORITY[j] \in InputPaths})

\* C26: every path of the priority list qualifies as a code file: a
\* priority-list path that is present in the input, with fewer than 5
\* higher-priority paths present, is returned in the code list.
C26_PriorityPathsAreSelected ==
    Selected =>
       \A k \in DOMAIN CODE_FILE_PRIORITY :
          (CODE_FILE_PRIORITY[k] \in InputPaths /\ HigherPriorityPresent(k) < MaxCodeFiles)
             => CODE_FILE_PRIORITY[k] \in Range(code)

\* the entries of the priority list that do not pass isCodeFile
DeadPriorityEntries == {p \in Range(CODE_FILE_PRIORITY) : ~isCodeFile(p)}

\* the same statement for the entries that pass isCodeFile; the one entry that
\* does not is 'lib/main.dart'
C26_LivePriorityPathsAreSelected ==
    /\ DeadPriorityEntries = {"lib/main.dart"}
    /\ Selected =>
          \A k \in DOMAIN CODE_FILE_PRIORITY :
             (/\ CODE_FILE_PRIORITY[k] \in InputPaths
              /\ CODE_FILE_PRIORITY[k] \notin DeadPriorityEntries
              /\ HigherPriorityPresent(k) < MaxCodeFiles)
                => CODE_FILE_PRIORITY[k] \in Range(code)

\* the Dart entry file is in the input and no code file is selected
C26_DartEntryDropped ==
    /\ Selected
    /\ InputPaths = {"lib/main.dart"}
    /\ code = <<>>

(***************************************************************************)
(* What the UI state can hold                                               *)
(***************************************************************************)

\* C27: after any sequence of user actions the UI state never holds a
\* non-empty report and a non-null analysis error at the same time.
C27_NeverReportAndError == ~(review # "" /\ error # NoValue)

\* the report of a completed run is hidden behind the blank-URL error
C27_ReportHiddenByBlankUrlError ==
    /\ review = ReportText
    /\ error = BlankUrlMessage
    /\ ~isProcessing
    /\ ~PostAnalysisVisible

\* the blank-URL check is the only way to it: any other error is set by a run,
\* whose reset has emptied the report
C27_OnlyTheBlankUrlError == (review # "" /\ error # NoValue) => error = BlankUrlMessage

(***************************************************************************)
(* Termination of a run                                                     *)
(***************************************************************************)

RunEnded == ~isProcessing /\ analysisStatus = NoRecord

\* C28: provided every network and generation call eventually returns or
\* fails, every started run eventually ends with the processing flag cleared
\* and the progress status cleared, whether it succeeded or failed.
C28_RunEventuallyEnds == isProcessing ~> RunEnded

\* a run that failed in its last stage has ended with both cleared
C28_Witness ==
    /\ RunEnded
    /\ pc = "done"
    /\ error # NoValue
    /\ Len(genCalls) >= 3

\* so has a run that succeeded
C28_SuccessWitness == RunEnded /\ pc = "done" /\ review # ""

\* between runs the flag and the status are always cleared together
C28_ClearedTogether == ~isProcessing => analysisStatus = NoRecord

====
